---- MODULE Spec2Model ----
(***************************************************************************)
(* Model of legendrian_mosaic.batch_catalog (src/file_cat.py): the batch   *)
(* driver, the line parser, the tile-to-tile traversal with its crossing   *)
(* and cusp bookkeeping, and the catalog of first occurrences.             *)
(***************************************************************************)
EXTENDS Integers, Sequences, FiniteSets, TLC

VARIABLES size, knot_count, knot_catalog, out_file, printed,
          mosaic, satisfied, crossing_number, gauss_code, crossing_signs,
          made_connections, crossing_count, i, num, writhe, up_cusps,
          down_cusps, curr_tile, starting_tile, face, mosaic_string, pc,
          lines_seen, verdicts

globals == <<size, knot_count, knot_catalog, out_file, printed>>
locals == <<mosaic, satisfied, crossing_number, gauss_code, crossing_signs,
            made_connections, crossing_count, i, num, writhe, up_cusps,
            down_cusps, curr_tile, starting_tile, face>>
vars == <<globals, locals, mosaic_string, pc, lines_seen, verdicts>>

(***************************************************************************)
(* Bounds of the model and the input universe.                             *)
(***************************************************************************)
\* Largest number of diagram lines that follow the header in the input file.
MaxLines == 3

\* The header line: an empty mosaic of the size of the others (3 x 3).
Header == <<"0","0","0","0","0","0","0","0","0">>

\* The header of a file of 4 x 4 mosaics.
Header4 == <<"0","0","0","0","0","0","0","0","0","0","0","0","0","0","0","0">>

Headers == {Header, Header4}

\* The lines an input file may hold after the header.
EmptyLine == <<"0","0","0","0","0","0","0","0","0">>
Unknot == <<"2","1","0","3","4","0","0","0","0">>
UnknotShifted == <<"0","0","0","0","2","1","0","3","4">>
NegCrossing == <<"2","1","0","3","9","1","0","3","4">>
PosCrossing == <<"0","2","1","2","9","4","3","4","0">>
TwoComponents == <<"2","1","0","3","8","1","0","3","4">>
RotationOne == <<"2","5","1","6","2","4","3","4","0">>
LoneArc == <<"0","0","0","0","1","0","0","0","0">>
DanglingLoop == <<"1","1","0","3","4","0","0","0","0">>
DoubleWalk == <<"7","0","9","3","1","6","0","3","8">>
FourEntries == <<"1","9","4","3","8","5","5","9","1">>
RunsOffGrid == <<"0","0","0","0","0","0","0","0","5">>
ShortLine == <<"2","1","0","3">>
LongLine == <<"2","1","0","3","4","0","0","0","0","0">>
NonDigitLine == <<"2","1","0","3","4","x","0","0","0">>
DoubleCrossing == <<"8","1","0","3","9","1","0","3","4">>
TwoCrossings ==
    <<"0","0","2","1","0","2","9","4","2","9","4","0","3","4","0","0">>
ShortCrossing == <<"5","9">>
Lines == {EmptyLine, Unknot, UnknotShifted, NegCrossing, PosCrossing,
          TwoComponents, RotationOne, LoneArc, DanglingLoop, DoubleWalk,
          FourEntries, RunsOffGrid, ShortLine, LongLine, NonDigitLine,
          DoubleCrossing, TwoCrossings, ShortCrossing}

(***************************************************************************)
(* Tables and conversions.                                                 *)
(***************************************************************************)
\* A slip in the row of type 7: (2,1) where (0,1) belongs.
valid_connections_slip == <<
    << >>,
    << <<2,3>>, <<3,2>> >>,
    << <<0,3>>, <<3,0>> >>,
    << <<0,1>>, <<1,0>> >>,
    << <<2,1>>, <<1,2>> >>,
    << <<2,0>>, <<0,2>> >>,
    << <<1,3>>, <<3,1>> >>,
    << <<2,3>>, <<3,2>>, <<1,0>>, <<2,1>> >>,
    << <<0,3>>, <<3,0>>, <<2,1>>, <<1,2>> >>,
    << <<0,2>>, <<1,3>>, <<2,0>>, <<3,1>> >> >>

\* valid_connections[type + 1] lists the (incoming face, outgoing face) pairs.
valid_connections == <<
    << >>,
    << <<2,3>>, <<3,2>> >>,
    << <<0,3>>, <<3,0>> >>,
    << <<0,1>>, <<1,0>> >>,
    << <<2,1>>, <<1,2>> >>,
    << <<2,0>>, <<0,2>> >>,
    << <<1,3>>, <<3,1>> >>,
    << <<2,3>>, <<3,2>>, <<1,0>>, <<0,1>> >>,
    << <<0,3>>, <<3,0>>, <<2,1>>, <<1,2>> >>,
    << <<0,2>>, <<1,3>>, <<2,0>>, <<3,1>> >> >>

Conns(type) == valid_connections[type + 1]

DigitChars == <<"0","1","2","3","4","5","6","7","8","9">>

IsDigit(char) == \E d \in 1..10 : DigitChars[d] = char

\* int(char) for a decimal digit character.
IntOf(char) == (CHOOSE d \in 1..10 : DigitChars[d] = char) - 1

\* int(len ** 0.5): the integer part of the square root.
ISqrt(len) == CHOOSE r \in 0..len : r * r <= len /\ (r + 1) * (r + 1) > len

None == -1

\* Python list indexing of a list of n * n entries: -n*n .. -1 alias the tail.
InRange(k, n) == k >= 0 - n * n /\ k <= n * n - 1

Ix(k, n) == IF k < 0 THEN k + n * n ELSE k

Tiles(n) == 0 .. (n * n - 1)

\* The per-diagram variables as one record, so that the parser and the
\* traversal step are functions of it.
Local == [mosaic |-> mosaic, satisfied |-> satisfied,
          crossing_number |-> crossing_number, gauss_code |-> gauss_code,
          crossing_signs |-> crossing_signs,
          made_connections |-> made_connections,
          crossing_count |-> crossing_count, i |-> i, num |-> num,
          writhe |-> writhe, up_cusps |-> up_cusps,
          down_cusps |-> down_cusps, curr_tile |-> curr_tile,
          starting_tile |-> starting_tile, face |-> face]

SetLocal(t) ==
    /\ mosaic' = t.mosaic
    /\ satisfied' = t.satisfied
    /\ crossing_number' = t.crossing_number
    /\ gauss_code' = t.gauss_code
    /\ crossing_signs' = t.crossing_signs
    /\ made_connections' = t.made_connections
    /\ crossing_count' = t.crossing_count
    /\ i' = t.i
    /\ num' = t.num
    /\ writhe' = t.writhe
    /\ up_cusps' = t.up_cusps
    /\ down_cusps' = t.down_cusps
    /\ curr_tile' = t.curr_tile
    /\ starting_tile' = t.starting_tile
    /\ face' = t.face

\* The per-diagram variables as batch_catalog sets them before its loop.
Fresh(n) == [mosaic |-> [k \in Tiles(n) |-> 0],
             satisfied |-> [k \in Tiles(n) |-> FALSE],
             crossing_number |-> [k \in Tiles(n) |-> 0],
             gauss_code |-> << >>, crossing_signs |-> << >>,
             made_connections |-> [k \in Tiles(n) |-> << >>],
             crossing_count |-> 0, i |-> 0, num |-> 0, writhe |-> 0,
             up_cusps |-> 0, down_cusps |-> 0, curr_tile |-> 0,
             starting_tile |-> None, face |-> 0]

(***************************************************************************)
(* Parsing of one line (the for loop over its characters).                 *)
(***************************************************************************)
ParseResult(t, err) == [t |-> t, err |-> err]

RECURSIVE ParseChars(_, _, _, _)
ParseChars(t, line, k, n) ==
    IF k > Len(line) THEN ParseResult(t, "none")
    ELSE IF ~IsDigit(line[k]) THEN ParseResult(t, "ValueError")
    ELSE LET d == IntOf(line[k]) IN
         IF t.i >= n * n THEN ParseResult([t EXCEPT !.num = d], "IndexError")
         ELSE ParseChars(
                [t EXCEPT !.num = d,
                          !.mosaic[t.i] = d,
                          !.satisfied[t.i] = (d = 0),
                          !.starting_tile =
                              IF t.starting_tile = None /\ d # 0
                              THEN t.i ELSE t.starting_tile,
                          !.i = t.i + 1],
                line, k + 1, n)

\* curr_tile = starting_tile; face = valid_connections[...][0][0]
StartWalk(t) ==
    [t EXCEPT !.curr_tile = t.starting_tile,
              !.face = Conns(t.mosaic[t.starting_tile])[1][1]]

(***************************************************************************)
(* One iteration of the traversal loop.                                    *)
(***************************************************************************)
\* while curr_tile != starting_tile or not satisfied[curr_tile]
LoopCond(t) ==
    IF t.curr_tile # t.starting_tile THEN TRUE
    ELSE ~t.satisfied[t.curr_tile]

HasMatch(type, f) == \E c \in 1..Len(Conns(type)) : Conns(type)[c][1] = f

\* The first connection of the tile type whose incoming face is f.
FirstMatch(type, f) ==
    LET c == CHOOSE c \in 1..Len(Conns(type)) :
                 /\ Conns(type)[c][1] = f
                 /\ \A b \in 1..(c - 1) : Conns(type)[b][1] # f
    IN Conns(type)[c]

\* Displacement of curr_tile for the incoming face of the next tile.
Offset(f, n) == CASE f = 0 -> -1
                  [] f = 1 -> n
                  [] f = 2 -> 1
                  [] f = 3 -> 0 - n

\* the test mosaic[curr_tile] < 7 left out: every tile waits for a second
\* connection
Saturates_second(made, type) == Len(made) = 2

\* A tile is marked saturated after its first connection when its type is
\* below 7 and after its second connection otherwise.
Saturates(made, type) == (Len(made) = 1 /\ type < 7) \/ Len(made) = 2

IsDownCusp(conn) == conn \in {<<0,3>>, <<1,2>>}

IsUpCusp(conn) == conn \in {<<3,0>>, <<2,1>>}

\* +identity when the incoming face is odd, -identity otherwise.
GaussEntry(conn, id) == IF conn[1] % 2 = 1 THEN id ELSE 0 - id

\* The sign of a crossing from the incoming faces of its two visits.
CrossingSign(conn, firstconn) == IF conn[1] + firstconn[1] = 3 THEN 1 ELSE -1

\* Position (1-based) of Python index idx in a list of length len.
PyPos(len, idx) == (IF idx < 0 THEN idx + len ELSE idx) + 1

\* A visit of a crossing that finds its tile satisfied stores the sign at
\* crossing_number - 1, which raises IndexError outside crossing_signs.
SignIndexError(t, n) ==
    /\ InRange(t.curr_tile, n)
    /\ LET k == Ix(t.curr_tile, n)
           type == t.mosaic[k]
       IN /\ type = 9
          /\ HasMatch(type, t.face)
          /\ \/ t.satisfied[k]
             \/ Saturates(Append(t.made_connections[k],
                                 FirstMatch(type, t.face)), type)
          /\ PyPos(Len(t.crossing_signs), t.crossing_number[k] - 1)
                 \notin 1..Len(t.crossing_signs)

StepConn(t, n) ==
    LET k == Ix(t.curr_tile, n)
        type == t.mosaic[k]
        conn == FirstMatch(type, t.face)
        made == Append(t.made_connections[k], conn)
        sat == IF Saturates(made, type) THEN TRUE ELSE t.satisfied[k]
        second == type = 9 /\ sat
        first == type = 9 /\ ~sat
        id == IF first THEN t.crossing_count + 1 ELSE t.crossing_number[k]
        sign == CrossingSign(conn, made[1])
        newface == (conn[2] + 2) % 4
    IN [t EXCEPT
          !.made_connections[k] = made,
          !.satisfied[k] = sat,
          !.down_cusps = IF IsDownCusp(conn) THEN @ + 1 ELSE @,
          !.up_cusps = IF IsUpCusp(conn) THEN @ + 1 ELSE @,
          !.gauss_code = IF type = 9 THEN Append(@, GaussEntry(conn, id))
                         ELSE @,
          !.writhe = IF second THEN @ + sign ELSE @,
          !.crossing_signs =
              IF second THEN [@ EXCEPT ![PyPos(Len(@), id - 1)] = sign]
              ELSE IF first THEN Append(@, 0) ELSE @,
          !.crossing_count = IF first THEN @ + 1 ELSE @,
          !.crossing_number[k] = id,
          !.face = newface,
          !.curr_tile = t.curr_tile + Offset(newface, n)]

(***************************************************************************)
(* After the loop: classification, invariant record, catalog.              *)
(***************************************************************************)
\* any(satisfied) in place of all(satisfied)
IsKnot_any(sat) == \E k \in DOMAIN sat : sat[k]

\* all(satisfied)
IsKnot(sat) == \A k \in DOMAIN sat : sat[k]

\* The polynomial of Link([[gauss_code], crossing_signs]), or the name the
\* table knot_list gives it: an opaque value determined by the two lists.
Homfly(gauss, signs) == [name |-> "homfly", gauss |-> gauss, signs |-> signs]

TrivialKnot == [name |-> "0_1", gauss |-> << >>, signs |-> << >>]

Abs(x) == IF x < 0 THEN 0 - x ELSE x

\* the threshold of the direct assignment off by one: len(gauss_code) < 2
Tup_short(t) ==
    [id |-> IF Len(t.gauss_code) < 2 THEN TrivialKnot
            ELSE Homfly(t.gauss_code, t.crossing_signs),
     tb |-> t.writhe - ((t.up_cusps + t.down_cusps) \div 2),
     rot |-> Abs(t.up_cusps - t.down_cusps) \div 2]

\* The record of the diagram: identity, Thurston-Bennequin number, rotation.
Tup(t) == [id |-> IF Len(t.gauss_code) < 3 THEN TrivialKnot
                  ELSE Homfly(t.gauss_code, t.crossing_signs),
           tb |-> t.writhe - ((t.up_cusps + t.down_cusps) \div 2),
           rot |-> Abs(t.up_cusps - t.down_cusps) \div 2]

\* the membership test left out: every knot is taken as new
InCatalog_never(tup, catalog) == FALSE

\* not tup in knot_catalog
InCatalog(tup, catalog) == tup \in DOMAIN catalog

\* knot_catalog = {tup: mosaic_string} in place of the item assignment
CatalogPut_replace(catalog, tup, string) == [key \in {tup} |-> string]

\* knot_catalog[tup] = mosaic_string
CatalogPut(catalog, tup, string) ==
    [key \in DOMAIN catalog \cup {tup} |->
        IF key = tup THEN string ELSE catalog[key]]

OutLine(tup, string) ==
    [id |-> tup.id, tb |-> tup.tb, rot |-> tup.rot, mosaic |-> string]

\* knot_count += 1 moved under if not tup in knot_catalog
NextKnotCount_new(count, isknot, isnew) ==
    IF isknot /\ isnew THEN count + 1 ELSE count

\* knot_count += 1 under if all(satisfied)
NextKnotCount(count, isknot, isnew) == IF isknot THEN count + 1 ELSE count

\* The resetting of variables between mosaics.
Reset(t, n) ==
    [t EXCEPT !.gauss_code = << >>, !.crossing_signs = << >>,
              !.made_connections = [k \in Tiles(n) |-> << >>],
              !.crossing_count = 0, !.i = 0, !.num = 0, !.writhe = 0,
              !.up_cusps = 0, !.down_cusps = 0, !.starting_tile = None]

(***************************************************************************)
(* The state machine.                                                      *)
(***************************************************************************)
Init ==
    /\ size \in {ISqrt(Len(header)) : header \in Headers}
    /\ knot_count = 0
    /\ knot_catalog = << >>
    /\ out_file = << >>
    /\ printed = None
    /\ LET t == Fresh(size) IN
         /\ mosaic = t.mosaic
         /\ satisfied = t.satisfied
         /\ crossing_number = t.crossing_number
         /\ gauss_code = t.gauss_code
         /\ crossing_signs = t.crossing_signs
         /\ made_connections = t.made_connections
         /\ crossing_count = t.crossing_count
         /\ i = t.i
         /\ num = t.num
         /\ writhe = t.writhe
         /\ up_cusps = t.up_cusps
         /\ down_cusps = t.down_cusps
         /\ curr_tile = t.curr_tile
         /\ starting_tile = t.starting_tile
         /\ face = t.face
    /\ mosaic_string = << >>
    /\ pc = "read"
    /\ lines_seen = << >>
    /\ verdicts = << >>

\* readline() returns the empty string: leave the loop, close, print.
EndOfInput ==
    /\ pc = "read"
    /\ mosaic_string' = << >>
    /\ printed' = knot_count
    /\ pc' = "done"
    /\ UNCHANGED <<size, knot_count, knot_catalog, out_file, locals,
                   lines_seen, verdicts>>

\* A line whose parsing raises (int() of a non-digit, mosaic[i] past the end).
ReadRaises ==
    /\ pc = "read"
    /\ Len(lines_seen) < MaxLines
    /\ \E line \in Lines :
         LET p == ParseChars(Local, line, 1, size) IN
         /\ p.err # "none"
         /\ mosaic_string' = line
         /\ lines_seen' = Append(lines_seen, line)
         /\ SetLocal(p.t)
    /\ pc' = "parse_raised"
    /\ UNCHANGED <<globals, verdicts>>

\* The continue left out: the empty mosaic falls through to the count.
ReadEmpty_counts ==
    /\ pc = "read"
    /\ Len(lines_seen) < MaxLines
    /\ \E line \in Lines :
         LET p == ParseChars(Local, line, 1, size) IN
         /\ p.err = "none"
         /\ p.t.starting_tile = None
         /\ mosaic_string' = line
         /\ lines_seen' = Append(lines_seen, line)
         /\ SetLocal(p.t)
    /\ pc' = "read"
    /\ knot_count' = knot_count + 1
    /\ UNCHANGED <<size, knot_catalog, out_file, printed, verdicts>>

\* A line without a non-zero tile: continue with the next line.
ReadEmpty ==
    /\ pc = "read"
    /\ Len(lines_seen) < MaxLines
    /\ \E line \in Lines :
         LET p == ParseChars(Local, line, 1, size) IN
         /\ p.err = "none"
         /\ p.t.starting_tile = None
         /\ mosaic_string' = line
         /\ lines_seen' = Append(lines_seen, line)
         /\ SetLocal(p.t)
    /\ pc' = "read"
    /\ UNCHANGED <<globals, verdicts>>

\* A line with a starting tile: the traversal starts there.
ReadMosaic ==
    /\ pc = "read"
    /\ Len(lines_seen) < MaxLines
    /\ \E line \in Lines :
         LET p == ParseChars(Local, line, 1, size) IN
         /\ p.err = "none"
         /\ p.t.starting_tile # None
         /\ mosaic_string' = line
         /\ lines_seen' = Append(lines_seen, line)
         /\ SetLocal(StartWalk(p.t))
    /\ pc' = "walk"
    /\ UNCHANGED <<globals, verdicts>>

\* One iteration of the while loop in which a connection matches face.
WalkStep ==
    /\ pc = "walk"
    /\ LoopCond(Local)
    /\ InRange(curr_tile, size)
    /\ HasMatch(mosaic[Ix(curr_tile, size)], face)
    /\ ~SignIndexError(Local, size)
    /\ SetLocal(StepConn(Local, size))
    /\ UNCHANGED <<globals, mosaic_string, pc, lines_seen, verdicts>>

\* One iteration in which no connection matches: nothing changes, and the
\* loop condition is evaluated again, for ever.
WalkSpin ==
    /\ pc = "walk"
    /\ LoopCond(Local)
    /\ InRange(curr_tile, size)
    /\ ~HasMatch(mosaic[Ix(curr_tile, size)], face)
    /\ UNCHANGED vars

\* mosaic[curr_tile] outside the list raises IndexError.
WalkRaises ==
    /\ pc = "walk"
    /\ LoopCond(Local)
    /\ ~InRange(curr_tile, size) \/ SignIndexError(Local, size)
    /\ pc' = "walk_raised"
    /\ UNCHANGED <<globals, locals, mosaic_string, lines_seen, verdicts>>

\* The loop has ended: count, catalog and write, then reset.
Finish ==
    /\ pc = "walk"
    /\ ~LoopCond(Local)
    /\ LET isknot == IsKnot(satisfied)
           tup == Tup(Local)
           isnew == ~InCatalog(tup, knot_catalog)
       IN /\ knot_count' = NextKnotCount(knot_count, isknot, isnew)
          /\ IF isknot /\ isnew
             THEN /\ out_file' = Append(out_file, OutLine(tup, mosaic_string))
                  /\ knot_catalog' = CatalogPut(knot_catalog, tup,
                                                mosaic_string)
             ELSE UNCHANGED <<out_file, knot_catalog>>
          /\ verdicts' = Append(verdicts,
                 [line |-> mosaic_string,
                  knot |-> \A k \in Tiles(size) : satisfied[k],
                  key |-> tup])
    /\ SetLocal(Reset(Local, size))
    /\ pc' = "read"
    /\ UNCHANGED <<size, printed, mosaic_string, lines_seen>>

Next ==
    \/ EndOfInput
    \/ ReadRaises
    \/ ReadEmpty
    \/ ReadMosaic
    \/ WalkStep
    \/ WalkSpin
    \/ WalkRaises
    \/ Finish

Spec == Init /\ [][Next]_vars

(***************************************************************************)
(* Geometry of a mosaic, by rows and columns: which faces of a tile carry  *)
(* a strand, which tile a face looks at, and the strands of a diagram.     *)
(***************************************************************************)
Ports(type) == {Conns(type)[c][1] : c \in 1..Len(Conns(type))}

Row(k, n) == k \div n

Col(k, n) == k % n

FacesInside(k, p, n) == CASE p = 0 -> Col(k, n) < n - 1
                          [] p = 1 -> Row(k, n) > 0
                          [] p = 2 -> Col(k, n) > 0
                          [] p = 3 -> Row(k, n) < n - 1

NeighbourOf(k, p, n) == CASE p = 0 -> k + 1
                          [] p = 1 -> k - n
                          [] p = 2 -> k - 1
                          [] p = 3 -> k + n

Dangling(m, k, p, n) ==
    /\ p \in Ports(m[k])
    /\ IF FacesInside(k, p, n)
       THEN ((p + 2) % 4) \notin Ports(m[NeighbourOf(k, p, n)])
       ELSE TRUE

HasDanglingPort(m, n) == \E k \in Tiles(n), p \in 0..3 : Dangling(m, k, p, n)

WellFormed(m, n) == ~HasDanglingPort(m, n)

Darts(m, n) == {d \in Tiles(n) \X (0..3) : d[2] \in Ports(m[d[1]])}

ExitOf(type, p) ==
    Conns(type)[CHOOSE c \in 1..Len(Conns(type)) : Conns(type)[c][1] = p][2]

NextDart(m, d, n) ==
    LET q == ExitOf(m[d[1]], d[2]) IN <<NeighbourOf(d[1], q, n), (q + 2) % 4>>

RECURSIVE Orbit(_, _, _, _)
Orbit(m, d, seen, n) ==
    IF d \in seen THEN seen ELSE Orbit(m, NextDart(m, d, n), seen \cup {d}, n)

\* The darts of the strand through dart d of a well-formed diagram, in both
\* directions.
Strand(m, d, n) ==
    LET orbit == Orbit(m, d, {}, n)
    IN orbit \cup {<<e[1], ExitOf(m[e[1]], e[2])>> : e \in orbit}

TwoOrMoreComponents(m, n) ==
    /\ WellFormed(m, n)
    /\ \E d \in Darts(m, n) : Strand(m, d, n) # Darts(m, n)

FullLine(line, n) ==
    /\ Len(line) = n * n
    /\ \A k \in 1..Len(line) : IsDigit(line[k])

Malformed(line, n) == Len(line) > 0 /\ ~FullLine(line, n)

LoopEnded == pc = "walk" /\ ~LoopCond(Local)

Raised == pc \in {"parse_raised", "walk_raised"}

AllSaturated == \A k \in Tiles(size) : satisfied[k]

\* The loop is at a tile none of whose connections matches face: no
\* iteration changes anything and the loop condition stays true.
WalksForever ==
    /\ pc = "walk"
    /\ LoopCond(Local)
    /\ InRange(curr_tile, size)
    /\ ~HasMatch(mosaic[Ix(curr_tile, size)], face)

Occurrences(seq, x) == Cardinality({j \in 1..Len(seq) : seq[j] = x})

(***************************************************************************)
(* The run of one diagram as the only line after the header.               *)
(***************************************************************************)
Outcome(kind, t) ==
    [kind |-> kind, gauss_code |-> t.gauss_code,
     crossing_signs |-> t.crossing_signs, writhe |-> t.writhe,
     up_cusps |-> t.up_cusps, down_cusps |-> t.down_cusps, record |-> Tup(t)]

NoOutcome(kind) == Outcome(kind, Fresh(1))

WalkFuel(n) == 16 * n * n

RECURSIVE WalkAlone(_, _, _)
WalkAlone(t, n, fuel) ==
    IF ~LoopCond(t)
    THEN Outcome(IF \A k \in Tiles(n) : t.satisfied[k]
                 THEN "knot" ELSE "discarded", t)
    ELSE IF ~InRange(t.curr_tile, n) \/ SignIndexError(t, n)
    THEN NoOutcome("raises")
    ELSE IF ~HasMatch(t.mosaic[Ix(t.curr_tile, n)], t.face)
    THEN NoOutcome("walks forever")
    ELSE IF fuel = 0 THEN NoOutcome("out of fuel")
    ELSE WalkAlone(StepConn(t, n), n, fuel - 1)

Alone(line, n) ==
    LET p == ParseChars(Fresh(n), line, 1, n) IN
    IF p.err # "none" THEN NoOutcome("raises")
    ELSE IF p.t.starting_tile = None THEN NoOutcome("empty")
    ELSE WalkAlone(StartWalk(p.t), n, WalkFuel(n))

(***************************************************************************)
(* Claims.                                                                 *)
(***************************************************************************)

\* C1: when the traversal loop has ended, the diagram is counted as a knot
\* and its record is in the catalog afterwards if and only if every tile is
\* marked saturated; a diagram that is not is neither counted nor written;
\* in particular a well-formed diagram of two or more components never is.
C1_CountedIffAllSaturated ==
    [][LoopEnded =>
        /\ (knot_count' = knot_count + 1) <=> AllSaturated
        /\ AllSaturated => Tup(Local) \in DOMAIN knot_catalog'
        /\ ~AllSaturated => /\ knot_count' = knot_count
                            /\ knot_catalog' = knot_catalog
                            /\ out_file' = out_file
        /\ TwoOrMoreComponents(mosaic, size) =>
                            /\ knot_count' = knot_count
                            /\ knot_catalog' = knot_catalog
                            /\ out_file' = out_file]_vars

C1_Witness ==
    /\ LoopEnded
    /\ TwoOrMoreComponents(mosaic, size)
    /\ knot_count >= 1

\* C2: at the end of the traversal of a diagram classified as a knot, every
\* allocated crossing identity occurs exactly twice in the Gauss code, once
\* positive and once negative, and its sign is +1 or -1.
C2_CrossingsTwiceOpposite ==
    (LoopEnded /\ AllSaturated) =>
        \A id \in 1..crossing_count :
            /\ Occurrences(gauss_code, id) = 1
            /\ Occurrences(gauss_code, 0 - id) = 1
            /\ Len(crossing_signs) >= id
            /\ crossing_signs[id] \in {1, -1}

\* C3: for a line of n*n digits the traversal loop ends: the run neither
\* walks for ever nor aborts.
C3_TraversalEnds ==
    FullLine(mosaic_string, size) => (~WalksForever /\ pc # "walk_raised")

\* C4: a diagram with a dangling port is never classified as a knot: it
\* changes neither the knot count nor the catalog nor the output.
C4_DanglingNeverKnot ==
    [][(LoopEnded /\ HasDanglingPort(mosaic, size)) =>
        /\ knot_count' = knot_count
        /\ knot_catalog' = knot_catalog
        /\ out_file' = out_file]_vars

\* C5: after any sequence of lines of n*n digits, what is computed for a
\* diagram (classification, Gauss code, signs, writhe, cusp counts, record)
\* is what is computed when it is the only line after the header.
C5_NoResidue ==
    (/\ Len(lines_seen) >= 1
     /\ \A j \in 1..Len(lines_seen) : FullLine(lines_seen[j], size)) =>
        LET alone == Alone(mosaic_string, size) IN
        /\ Raised => alone.kind = "raises"
        /\ WalksForever => alone.kind = "walks forever"
        /\ LoopEnded =>
             alone = Outcome(IF AllSaturated THEN "knot" ELSE "discarded",
                             Local)

\* C6: a malformed line (wrong length or a non-digit) is skipped: the run
\* does not abort and the knot count, the catalog and the output stay as
\* they are while it is the current line.
C6_MalformedSkipped ==
    [][Malformed(mosaic_string', size) =>
        /\ ~Raised'
        /\ knot_count' = knot_count
        /\ knot_catalog' = knot_catalog
        /\ out_file' = out_file]_vars

KnotVerdicts == {j \in 1..Len(verdicts) : verdicts[j].knot}

FirstWithKey(key) ==
    CHOOSE j \in KnotVerdicts :
        /\ verdicts[j].key = key
        /\ \A h \in KnotVerdicts : verdicts[h].key = key => j <= h

OutKey(rec) == [id |-> rec.id, tb |-> rec.tb, rot |-> rec.rot]

\* C7: for each key at most one output line is written, and it carries the
\* first diagram string in input order that produced the key; so does the
\* catalog entry of the key.
C7_FirstOccurrenceOnly ==
    /\ \A a, b \in 1..Len(out_file) :
           OutKey(out_file[a]) = OutKey(out_file[b]) => a = b
    /\ \A a \in 1..Len(out_file) :
           /\ \E j \in KnotVerdicts : verdicts[j].key = OutKey(out_file[a])
           /\ out_file[a].mosaic =
                  verdicts[FirstWithKey(OutKey(out_file[a]))].line
    /\ \A j \in KnotVerdicts :
           /\ \E a \in 1..Len(out_file) : OutKey(out_file[a]) = verdicts[j].key
           /\ verdicts[j].key \in DOMAIN knot_catalog
           /\ knot_catalog[verdicts[j].key] =
                  verdicts[FirstWithKey(verdicts[j].key)].line

C7_Witness ==
    /\ Len(out_file) = 1
    /\ \E a, b \in KnotVerdicts :
           /\ a < b
           /\ verdicts[a].key = verdicts[b].key
           /\ verdicts[a].line # verdicts[b].line

\* C8: the catalog only grows: every key stays and keeps its diagram string.
C8_CatalogOnlyGrows ==
    [][\A key \in DOMAIN knot_catalog :
           /\ key \in DOMAIN knot_catalog'
           /\ knot_catalog'[key] = knot_catalog[key]]_vars

C8_Witness ==
    /\ Cardinality(DOMAIN knot_catalog) = 2
    /\ Cardinality(KnotVerdicts) = 3

\* C9: the count printed at the end is the number of processed lines that
\* were classified as knots, whether newly cataloged or not; it is at least
\* the number of catalog entries.
C9_ReportedCount ==
    pc = "done" =>
        /\ printed = Cardinality(KnotVerdicts)
        /\ printed >= Cardinality(DOMAIN knot_catalog)

C9_Witness ==
    /\ pc = "done"
    /\ printed = 2
    /\ Cardinality(DOMAIN knot_catalog) = 1
    /\ Len(verdicts) = 3

\* C10: for a diagram classified as a knot U + D and |U - D| are even, so
\* that TB = writhe - (U + D) / 2 and rotation = |U - D| / 2 are exact.
C10_CuspCountsEven ==
    (LoopEnded /\ AllSaturated) =>
        /\ (up_cusps + down_cusps) % 2 = 0
        /\ Abs(up_cusps - down_cusps) % 2 = 0
        /\ 2 * (writhe - Tup(Local).tb) = up_cusps + down_cusps
        /\ 2 * Tup(Local).rot = Abs(up_cusps - down_cusps)

\* The record of the current traversal with the identity id.
RecordWith(id) ==
    [id |-> id,
     tb |-> writhe - ((up_cusps + down_cusps) \div 2),
     rot |-> Abs(up_cusps - down_cusps) \div 2]

\* C11 (as claimed): a successfully traversed diagram (well-formed and
\* classified as a knot) that has fewer than 3 crossing identities (0, 1 or
\* 2) gets the identity '0_1' directly, without the polynomial lookup: its
\* record with '0_1' is the one in the catalog.
C11_FewerThanThreeCrossings ==
    [][(/\ LoopEnded
        /\ AllSaturated
        /\ WellFormed(mosaic, size)
        /\ crossing_count < 3) =>
        RecordWith(TrivialKnot) \in DOMAIN knot_catalog']_vars

\* C11 (amended): a diagram classified as a knot whose Gauss code has fewer
\* than 3 entries (no crossing, or one crossing visited twice) gets the
\* identity '0_1' directly, without the polynomial lookup.
C11_FewerThanThreeEntries ==
    [][(LoopEnded /\ AllSaturated /\ Len(gauss_code) < 3) =>
        RecordWith(TrivialKnot) \in DOMAIN knot_catalog']_vars

C11_Witness ==
    \E j \in KnotVerdicts :
        /\ verdicts[j].line = NegCrossing
        /\ verdicts[j].key.id = TrivialKnot
        /\ verdicts[j].key \in DOMAIN knot_catalog

ZeroLine(line) == Len(line) > 0 /\ \A k \in 1..Len(line) : line[k] = "0"

\* C12: a line made of type-0 tiles only is never classified as a knot (no
\* traversal starts, no verdict is given) and leaves the knot count, the
\* catalog and the output as they are.
C12_ZeroLineChangesNothing ==
    [][ZeroLine(mosaic_string') =>
        /\ pc' # "walk"
        /\ verdicts' = verdicts
        /\ knot_count' = knot_count
        /\ knot_catalog' = knot_catalog
        /\ out_file' = out_file]_vars

C12_Witness ==
    /\ pc = "read"
    /\ ZeroLine(mosaic_string)
    /\ knot_count >= 1
    /\ Len(out_file) >= 1

RECURSIVE SumOfLengths(_, _)
SumOfLengths(f, S) ==
    IF S = {} THEN 0
    ELSE LET k == CHOOSE k \in S : TRUE
         IN Len(f[k]) + SumOfLengths(f, S \ {k})

\* The number of iterations of the traversal loop so far: each appends one
\* connection to one tile.
Steps == SumOfLengths(made_connections, Tiles(size))

\* No connection occurs twice in the list, in either direction.
NoRepeat(made) ==
    \A a, b \in 1..Len(made) :
        a < b => /\ made[a] # made[b]
                 /\ made[a] # <<made[b][2], made[b][1]>>

\* C13: on a well-formed diagram (a line of n*n digits in which every port
\* faces a matching port) the traversal never stops at a tile without
\* a matching connection, never leaves the grid, takes at most 4*n*n steps
\* and uses no (tile, connection) pair twice, in either direction; so it
\* ends within 4*n*n steps.
C13_WellFormedTerminates ==
    (/\ pc \in {"walk", "walk_raised"}
     /\ FullLine(mosaic_string, size)
     /\ WellFormed(mosaic, size)) =>
        /\ pc = "walk"
        /\ ~WalksForever
        /\ Steps <= 4 * size * size
        /\ \A k \in Tiles(size) : NoRepeat(made_connections[k])

C13_Witness ==
    /\ LoopEnded
    /\ FullLine(mosaic_string, size)
    /\ WellFormed(mosaic, size)
    /\ Steps = 12
    /\ \E k \in Tiles(size) : Len(made_connections[k]) = 2

AllLinesFull == \A j \in 1..Len(lines_seen) : FullLine(lines_seen[j], size)

SaturatedByRule(k) ==
    \/ mosaic[k] = 0
    \/ mosaic[k] \in 1..6 /\ Len(made_connections[k]) >= 1
    \/ mosaic[k] \in 7..9 /\ Len(made_connections[k]) >= 2

\* C14: at every point of every traversal (of lines of n*n digits) each
\* tile's list of used connections holds at most 2 entries, and a tile is
\* marked saturated exactly when it is of type 0, or of type 1-6 with at
\* least one used connection, or of type 7-9 with at least two.
C14_AtMostTwoConnections ==
    (pc = "walk" /\ AllLinesFull) =>
        \A k \in Tiles(size) :
            /\ Len(made_connections[k]) <= 2
            /\ satisfied[k] <=> SaturatedByRule(k)

Matching(type, f) == {c \in 1..Len(Conns(type)) : Conns(type)[c][1] = f}

\* C15: in valid_connections every port is the incoming face of at most one
\* connection of a tile type, so that a step of the traversal has at most
\* one connection to select, and with (a,b) the table lists (b,a).
C15_TableDeterministicSymmetric ==
    /\ \A type \in 0..9, p \in 0..3 : Cardinality(Matching(type, p)) <= 1
    /\ \A type \in 0..9 : \A c \in 1..Len(Conns(type)) :
           \E b \in 1..Len(Conns(type)) :
               Conns(type)[b] = <<Conns(type)[c][2], Conns(type)[c][1]>>
    /\ (pc = "walk" /\ InRange(curr_tile, size)) =>
           Cardinality(Matching(mosaic[Ix(curr_tile, size)], face)) <= 1

C15_Witness ==
    /\ pc = "walk"
    /\ \E k \in Tiles(size) :
           /\ mosaic[k] \in 7..9
           /\ Len(made_connections[k]) = 2
           /\ made_connections[k][1][1] # made_connections[k][2][1]
           /\ made_connections[k][1][1] # made_connections[k][2][2]

IdsOf(gauss) == {Abs(gauss[j]) : j \in 1..Len(gauss)}

FirstAt(gauss, id) ==
    CHOOSE j \in 1..Len(gauss) :
        Abs(gauss[j]) = id /\ \A m \in 1..(j - 1) : Abs(gauss[m]) # id

\* C16: during a traversal the crossing identities are 1..crossing_count in
\* the order of first visits: the identities of the Gauss code are exactly
\* 1..crossing_count with increasing first occurrences, crossing_signs has
\* crossing_count entries, two visited crossing tiles never share an
\* identity, the sign of a crossing tile is at the position of its
\* identity (0 until the second visit), and the first entry of identity k
\* is +k when the tile was first entered by an odd port, -k otherwise.
C16_IdentitiesInOrder ==
    pc = "walk" =>
        /\ Len(crossing_signs) = crossing_count
        /\ IdsOf(gauss_code) = 1..crossing_count
        /\ \A a, b \in 1..crossing_count :
               a < b => FirstAt(gauss_code, a) < FirstAt(gauss_code, b)
        /\ \A k, m \in Tiles(size) :
               (/\ k # m
                /\ mosaic[k] = 9 /\ Len(made_connections[k]) >= 1
                /\ mosaic[m] = 9 /\ Len(made_connections[m]) >= 1) =>
                   crossing_number[k] # crossing_number[m]
        /\ \A k \in Tiles(size) :
               (mosaic[k] = 9 /\ Len(made_connections[k]) >= 1) =>
                   /\ crossing_number[k] \in 1..crossing_count
                   /\ gauss_code[FirstAt(gauss_code, crossing_number[k])]
                        = IF made_connections[k][1][1] % 2 = 1
                          THEN crossing_number[k] ELSE -crossing_number[k]
                   /\ crossing_signs[crossing_number[k]] \in {-1, 0, 1}
                   /\ crossing_signs[crossing_number[k]] # 0 <=> satisfied[k]

RECURSIVE SumOf(_)
SumOf(seq) == IF seq = << >> THEN 0 ELSE Head(seq) + SumOf(Tail(seq))

\* C17: at every point of a traversal writhe is the sum of the entries of
\* crossing_signs, an unresolved crossing counting 0.
C17_WritheIsSumOfSigns ==
    pc = "walk" => writhe = SumOf(crossing_signs)

\* C18: every step of a traversal leaves curr_tile in 0..n*n-1, and a step
\* of +1 or -1 stays in the row of the tile it leaves.
C18_MovesStayOnGrid ==
    [][(pc = "walk" /\ pc' = "walk") =>
          /\ curr_tile' \in 0..(size * size - 1)
          /\ (curr_tile' - curr_tile \in {1, -1} /\ curr_tile >= 0) =>
                 Row(curr_tile', size) = Row(curr_tile, size)]_vars

CuspArcs ==
    Cardinality({k \in Tiles(size) : mosaic[k] \in {2, 4}})
        + 2 * Cardinality({k \in Tiles(size) : mosaic[k] = 8})

\* C19: when the loop has ended on a diagram classified as a knot, up_cusps
\* + down_cusps is the number of cusp arcs of the diagram: one for a tile
\* of type 2 or 4, two for a tile of type 8.
C19_EveryCuspArcOnce ==
    (LoopEnded /\ AllSaturated) => up_cusps + down_cusps = CuspArcs

====
